---------------------------- MODULE Spec2Model ----------------------------
(***************************************************************************)
(* State-machine model of the sfnt table directory (Font) and of the GPOS  *)
(* pair-adjustment kerning parser of benoitkugler/font.                    *)
(*                                                                         *)
(* Byte buffers are sequences of bytes (0..255).  A Go offset i is the     *)
(* element i+1 of the sequence.  A Go run-time panic (slice or index out   *)
(* of range, failed type assertion) is the error value Panic; a loop that  *)
(* never ends is the error value Hang.                                     *)
(***************************************************************************)
EXTENDS Integers, Sequences, FiniteSets, TLC

VARIABLES
    tables,     \* Font.tables: tag -> tableSection
    ret,        \* the last call on the directory and what it returned
    layout,     \* the TableLayout handed to parseKern
    kres,       \* what parseKern returned for layout
    qres,       \* what classKerns.KernPair returned
    crs,        \* the range records whose glyphs are being listed
    k,          \* index of the range record being expanded
    gi,         \* the loop variable i of the range loop (a uint16)
    iters,      \* iterations of the range loop made for record k
    pc          \* position of the range expansion

dirVars == <<tables, ret>>
parseVars == <<layout, kres, qres>>
loopVars == <<crs, k, gi, iters, pc>>
vars == <<tables, ret, layout, kres, qres, crs, k, gi, iters, pc>>

Nil == "nil"

(***************************************************************************)
(* Error values.                                                           *)
(***************************************************************************)
errInvalidGPOSKern == "invalid GPOS kerning subtable"
errUnsupportedClassDefFormat == "unsupported class definition format"
errUnsupportedCoverageFormat == "unsupported GPOS coverage format"
errMissingKerningInformation == "missing GPOS kerning information"
ErrMissingTable == "missing table"
errNotLayout == "table is not a layout table"
errDecode == "table decode failed"
Panic == "panic"
Hang == "hang"
NoErr == ""
NotRun == "not run"

(***************************************************************************)
(* Big-endian reads on a byte slice.                                       *)
(***************************************************************************)
\* GlyphIndex and the fields read by be.Uint16 are 16 bits wide.
GlyphModulus == 65536

\* b[off:] of Go; defined when off <= len(b)
Slice(b, off) == SubSeq(b, off + 1, Len(b))

\* be.Uint16(b[off:]) does not panic
CanU16(b, off) == off >= 0 /\ off + 2 <= Len(b)

\* be.Uint16(b[off:])
U16(b, off) == b[off + 1] * 256 + b[off + 2]

\* int16(x) of a uint16 x
Int16(x) == IF x >= 32768 THEN x - 65536 ELSE x

\* m[key] = v on a Go map
MapPut(m, key, v) == [x \in DOMAIN m \cup {key} |-> IF x = key THEN v ELSE m[x]]

\* m[key] read on a Go map of integers: zero when absent
MapGet(m, key) == IF key \in DOMAIN m THEN m[key] ELSE 0

EmptyMap == [x \in {} |-> 0]

Ok(v) == [err |-> NoErr, val |-> v]

Fail(e) == [err |-> e, val |-> Nil]

\* r, err := ...; if err != nil { return err }; then F applied to r
Bind(r, F(_)) == IF r.err # NoErr THEN r ELSE F(r.val)

\* no call was made yet
NoResult == Fail(NotRun)

(***************************************************************************)
(* Coverage tables.                                                        *)
(***************************************************************************)
RECURSIVE CoverageListLoop(_, _, _, _)
\* fetchCoverageList, the loop filling out[i]
CoverageListLoop(buf, num, i, out) ==
    IF i >= num THEN Ok(out)
    ELSE IF ~CanU16(buf, 2 + 2 * i) THEN Fail(Panic)
    ELSE CoverageListLoop(buf, num, i + 1, Append(out, U16(buf, 2 + 2 * i)))

fetchCoverageList(buf) ==
    IF Len(buf) < 2 THEN Fail(errInvalidGPOSKern)
    ELSE IF Len(buf) < 2 + U16(buf, 0) * 2 THEN Fail(errInvalidGPOSKern)
    ELSE CoverageListLoop(buf, U16(buf, 0), 0, <<>>)

RECURSIVE RangeLoop(_, _, _)
\* for i := cr.start; i <= cr.end; i++ { out = append(out, i) } with i a uint16:
\* once the body runs with i = 0xFFFF the increment wraps to 0 and the
\* condition i <= cr.end (= 0xFFFF) holds for ever.
RangeLoop(i, end, out) ==
    IF ~(i <= end) THEN Ok(out)
    ELSE IF (i + 1) % GlyphModulus < i THEN Fail(Hang)
    ELSE RangeLoop((i + 1) % GlyphModulus, end, Append(out, i))

RECURSIVE coverageRangesList(_, _, _)
\* coverageRanges.list
coverageRangesList(ranges, n, out) ==
    IF n > Len(ranges) THEN Ok(out)
    ELSE Bind(RangeLoop(ranges[n].start, ranges[n].end, out),
              LAMBDA o : coverageRangesList(ranges, n + 1, o))

RECURSIVE CoverageRangeLoop(_, _, _, _)
\* fetchCoverageRange, the loop filling the range records
CoverageRangeLoop(buf, num, i, out) ==
    IF i >= num THEN Ok(out)
    ELSE IF ~CanU16(buf, 2 + i * 6) \/ ~CanU16(buf, 2 + i * 6 + 2)
            \/ ~CanU16(buf, 2 + i * 6 + 4) THEN Fail(Panic)
    ELSE CoverageRangeLoop(buf, num, i + 1,
            Append(out, [start |-> U16(buf, 2 + i * 6),
                         end |-> U16(buf, 2 + i * 6 + 2),
                         startCoverage |-> U16(buf, 2 + i * 6 + 4)]))

fetchCoverageRange(buf) ==
    IF Len(buf) < 2 THEN Fail(errInvalidGPOSKern)
    ELSE IF Len(buf) < 2 + U16(buf, 0) * 6 THEN Fail(errInvalidGPOSKern)
    ELSE Bind(CoverageRangeLoop(buf, U16(buf, 0), 0, <<>>),
              LAMBDA rs : coverageRangesList(rs, 1, <<>>))

\* fetchCoverage with errInvalidGPOSKern returned by the default case too
fetchCoverageOneErrorKind(buf, offset) ==
    IF Len(buf) < offset + 2 THEN Fail(errInvalidGPOSKern)
    ELSE LET b == Slice(buf, offset)
             format == U16(b, 0)
         IN  CASE format = 1 -> fetchCoverageList(Slice(b, 2))
               [] format = 2 -> fetchCoverageRange(Slice(b, 2))
               [] OTHER -> Fail(errInvalidGPOSKern)

fetchCoverage(buf, offset) ==
    IF Len(buf) < offset + 2 THEN Fail(errInvalidGPOSKern)
    ELSE LET b == Slice(buf, offset)
             format == U16(b, 0)
         IN  CASE format = 1 -> fetchCoverageList(Slice(b, 2))
               [] format = 2 -> fetchCoverageRange(Slice(b, 2))
               [] OTHER -> Fail(errUnsupportedCoverageFormat)

(***************************************************************************)
(* Class definitions.                                                      *)
(***************************************************************************)
RECURSIVE class1ClassIDs(_, _, _, _)
\* class1.classIDs: out[startGlyph+GlyphIndex(i)] = target, in uint16 arithmetic
class1ClassIDs(startGlyph, targets, i, out) ==
    IF i > Len(targets) THEN out
    ELSE class1ClassIDs(startGlyph, targets, i + 1,
            MapPut(out, (startGlyph + (i - 1)) % GlyphModulus, targets[i]))

RECURSIVE ClassRangeLoop(_, _, _, _)
\* class2.classIDs, the inner loop over one range record (i a uint16)
ClassRangeLoop(i, end, target, out) ==
    IF ~(i <= end) THEN Ok(out)
    ELSE IF (i + 1) % GlyphModulus < i THEN Fail(Hang)
    ELSE ClassRangeLoop((i + 1) % GlyphModulus, end, target, MapPut(out, i, target))

RECURSIVE class2ClassIDs(_, _, _)
\* class2.classIDs
class2ClassIDs(records, n, out) ==
    IF n > Len(records) THEN Ok(out)
    ELSE Bind(ClassRangeLoop(records[n].start, records[n].end,
                             records[n].targetClassID, out),
              LAMBDA o : class2ClassIDs(records, n + 1, o))

\* class.classIDs, for either implementation of the interface
classIDs(c) ==
    IF c.format = 1 THEN Ok(class1ClassIDs(c.startGlyph, c.targetClassIDs, 1, EmptyMap))
    ELSE class2ClassIDs(c.records, 1, EmptyMap)

RECURSIVE ClassFormat1Loop(_, _, _, _)
\* fetchClassLookupFormat1, the loop filling classIDs[i]
ClassFormat1Loop(buf, num, i, out) ==
    IF i >= num THEN Ok(out)
    ELSE IF ~CanU16(buf, 6 + i * 2) THEN Fail(Panic)
    ELSE ClassFormat1Loop(buf, num, i + 1, Append(out, U16(buf, 6 + i * 2)))

fetchClassLookupFormat1(buf) ==
    IF Len(buf) < 6 THEN Fail(errInvalidGPOSKern)
    ELSE IF Len(buf) < 6 + U16(buf, 4) * 2 THEN Fail(errInvalidGPOSKern)
    ELSE Bind(ClassFormat1Loop(buf, U16(buf, 4), 0, <<>>),
              LAMBDA ids : Ok([format |-> 1, startGlyph |-> U16(buf, 2),
                               targetClassIDs |-> ids]))

RECURSIVE ClassFormat2Loop(_, _, _, _)
\* fetchClassLookupFormat2, the loop filling the range records
ClassFormat2Loop(buf, num, i, out) ==
    IF i >= num THEN Ok(out)
    ELSE IF ~CanU16(buf, 4 + i * 6) \/ ~CanU16(buf, 4 + i * 6 + 2)
            \/ ~CanU16(buf, 4 + i * 6 + 4) THEN Fail(Panic)
    ELSE ClassFormat2Loop(buf, num, i + 1,
            Append(out, [start |-> U16(buf, 4 + i * 6),
                         end |-> U16(buf, 4 + i * 6 + 2),
                         targetClassID |-> U16(buf, 4 + i * 6 + 4)]))

fetchClassLookupFormat2(buf) ==
    IF Len(buf) < 4 THEN Fail(errInvalidGPOSKern)
    ELSE IF Len(buf) < 4 + U16(buf, 2) * 6 THEN Fail(errInvalidGPOSKern)
    ELSE Bind(ClassFormat2Loop(buf, U16(buf, 2), 0, <<>>),
              LAMBDA rs : Ok([format |-> 2, records |-> rs]))

fetchClassLookup(buf, offset) ==
    IF Len(buf) < offset + 2 THEN Fail(errInvalidGPOSKern)
    ELSE LET b == Slice(buf, offset) IN
         CASE U16(b, 0) = 1 -> fetchClassLookupFormat1(b)
           [] U16(b, 0) = 2 -> fetchClassLookupFormat2(b)
           [] OTHER -> Fail(errUnsupportedClassDefFormat)

(***************************************************************************)
(* Pair adjustment subtables.                                              *)
(***************************************************************************)
RECURSIVE LastPairSetOffset(_, _, _, _)
\* parsePairPosFormat1, the loop finding the largest PairSet offset
LastPairSetOffset(buf, nPairs, n, last) ==
    IF n >= nPairs THEN Ok(last)
    ELSE IF ~CanU16(buf, 10 + n * 2) THEN Fail(Panic)
    ELSE LET pairOffset == U16(buf, 10 + n * 2) IN
         LastPairSetOffset(buf, nPairs, n + 1,
                           IF pairOffset > last THEN pairOffset ELSE last)

RECURSIVE PairValueLoop(_, _, _, _, _, _)
\* fetchPairPosGlyph, the loop over the records of one PairSet
PairValueLoop(glyphs, a, offset, count, i, out) ==
    IF i >= count THEN Ok(out)
    ELSE IF ~CanU16(glyphs, offset + 2 + i * 4)
            \/ ~CanU16(glyphs, offset + 2 + i * 4 + 2) THEN Fail(Panic)
    ELSE LET b == U16(glyphs, offset + 2 + i * 4)
             value == Int16(U16(glyphs, offset + 2 + i * 4 + 2))
         IN  PairValueLoop(glyphs, a, offset, count, i + 1,
                           MapPut(out, a * 65536 + b, value))

\* fetchPairPosGlyph, the checks made on glyphs[10+idx*2:] before its PairSet is read
PairSetInBuffer(glyphs, offset) == ~(offset + 1 >= Len(glyphs))

RECURSIVE fetchPairPosGlyphFrom(_, _, _, _, _)
\* fetchPairPosGlyph, from coverage index idx on
fetchPairPosGlyphFrom(coverage, num, glyphs, idx, out) ==
    IF idx >= Len(coverage) THEN Ok(out)
    ELSE IF idx >= num THEN Fail(errInvalidGPOSKern)
    ELSE IF ~CanU16(glyphs, 10 + idx * 2) THEN Fail(Panic)
    ELSE IF ~PairSetInBuffer(glyphs, U16(glyphs, 10 + idx * 2))
         THEN Fail(errInvalidGPOSKern)
    ELSE Bind(PairValueLoop(glyphs, coverage[idx + 1], U16(glyphs, 10 + idx * 2),
                            U16(glyphs, U16(glyphs, 10 + idx * 2)), 0, out),
              LAMBDA o : fetchPairPosGlyphFrom(coverage, num, glyphs, idx + 1, o))

fetchPairPosGlyph(coverage, num, glyphs, out) ==
    fetchPairPosGlyphFrom(coverage, num, glyphs, 0, out)

\* the value record formats the parsers support: X_ADVANCE for the first glyph only
SupportedValueFormats(valueFormat1, valueFormat2) ==
    ~(valueFormat1 # 4 \/ valueFormat2 # 0)

\* parsePairPosFormat1 once the largest PairSet offset is known
CheckLastPairSet(buf, coverage, out, nPairs, lastPairSetOffset) ==
    IF Len(buf) < lastPairSetOffset + 2 THEN Fail(errInvalidGPOSKern)
    ELSE IF Len(buf) < lastPairSetOffset + 2 + U16(buf, lastPairSetOffset) * 4
         THEN Fail(errInvalidGPOSKern)
    ELSE fetchPairPosGlyph(coverage, nPairs, buf, out)

parsePairPosFormat1(buf, coverage, out) ==
    IF Len(buf) < 10 THEN Fail(errInvalidGPOSKern)
    ELSE IF ~SupportedValueFormats(U16(buf, 4), U16(buf, 6)) THEN Ok(out)
    ELSE IF Len(buf) < 10 + U16(buf, 8) * 2 THEN Fail(errInvalidGPOSKern)
    ELSE Bind(LastPairSetOffset(buf, U16(buf, 8), 0, 0),
              LAMBDA last : CheckLastPairSet(buf, coverage, out, U16(buf, 8), last))

\* classKerns{}
EmptyClassKerns ==
    [coverage |-> {}, class1 |-> EmptyMap, class2 |-> EmptyMap,
     numClass2 |-> 0, kerns |-> <<>>]

RECURSIVE KernsLoop(_, _, _, _)
\* fetchPairPosClass, the loops reading the num1 x num2 matrix (index = j + i*num2)
KernsLoop(buf, total, index, out) ==
    IF index >= total THEN Ok(out)
    ELSE IF ~CanU16(buf, index * 2) THEN Fail(Panic)
    ELSE KernsLoop(buf, total, index + 1, Append(out, Int16(U16(buf, index * 2))))

fetchPairPosClass(buf, cov, num1, num2, cdef1, cdef2) ==
    IF Len(buf) < num1 * num2 * 2 THEN Fail(errInvalidGPOSKern)
    ELSE Bind(KernsLoop(buf, num1 * num2, 0, <<>>), LAMBDA kerns :
         Bind(classIDs(cdef1), LAMBDA c1 :
         Bind(classIDs(cdef2), LAMBDA c2 :
              Ok([coverage |-> {cov[n] : n \in 1..Len(cov)},
                  class1 |-> c1, class2 |-> c2,
                  numClass2 |-> num2, kerns |-> kerns]))))

parsePairPosFormat2(buf, coverage) ==
    IF Len(buf) < 16 THEN Fail(errInvalidGPOSKern)
    ELSE IF ~SupportedValueFormats(U16(buf, 4), U16(buf, 6)) THEN Ok(EmptyClassKerns)
    ELSE Bind(fetchClassLookup(buf, U16(buf, 8)), LAMBDA cdef1 :
         Bind(fetchClassLookup(buf, U16(buf, 10)), LAMBDA cdef2 :
              fetchPairPosClass(Slice(buf, 16), coverage,
                                U16(buf, 12), U16(buf, 14), cdef1, cdef2)))

\* classKerns.KernPair: [val, found], or a panic when the index is outside kerns
KernPair(c, left, right) ==
    IF left \notin c.coverage THEN [err |-> NoErr, val |-> 0, found |-> FALSE]
    ELSE LET idxa == MapGet(c.class1, left)
             idxb == MapGet(c.class2, right)
             index == idxb + idxa * c.numClass2
         IN  IF index >= Len(c.kerns) THEN [err |-> Panic, val |-> 0, found |-> FALSE]
             ELSE [err |-> NoErr, val |-> c.kerns[index + 1], found |-> TRUE]

(***************************************************************************)
(* TableLayout.parseKern.  A TableLayout is its Lookups: a sequence of     *)
(* [Type, data, subtableOffsets].  A Kerns value is [simples, classes]:    *)
(* slot 0 of the kernUnions and the slots appended after it.               *)
(***************************************************************************)
\* parseKern, the body of the loop over subtableOffsets
\* parseKern, the switch on the subtable's format
ParseFormat(b, format, coverage, acc) ==
    CASE format = 1 ->
           Bind(parsePairPosFormat1(b, coverage, acc.simples),
                LAMBDA simples : Ok([acc EXCEPT !.simples = simples]))
      [] format = 2 ->
           Bind(parsePairPosFormat2(b, coverage),
                LAMBDA cl : Ok([acc EXCEPT !.classes = Append(@, cl)]))
      [] OTHER -> Ok(acc)

ParseSubtable(data, subtableOffset, acc) ==
    IF Len(data) < 4 + subtableOffset THEN Fail(errInvalidGPOSKern)
    ELSE Bind(fetchCoverage(Slice(data, subtableOffset),
                            U16(Slice(data, subtableOffset), 2)),
              LAMBDA coverage :
                  ParseFormat(Slice(data, subtableOffset),
                              U16(Slice(data, subtableOffset), 0), coverage, acc))

RECURSIVE ParseSubtables(_, _, _)
\* parseKern, the loop over lookup.subtableOffsets
ParseSubtables(lookup, n, acc) ==
    IF n > Len(lookup.subtableOffsets) THEN Ok(acc)
    ELSE Bind(ParseSubtable(lookup.data, lookup.subtableOffsets[n], acc),
              LAMBDA a : ParseSubtables(lookup, n + 1, a))

RECURSIVE ParseLookups(_, _, _)
\* parseKern, the loop over t.Lookups
ParseLookups(lookups, n, acc) ==
    IF n > Len(lookups) THEN Ok(acc)
    ELSE IF lookups[n].Type # 2 THEN ParseLookups(lookups, n + 1, acc)
    ELSE Bind(ParseSubtables(lookups[n], 1, acc),
              LAMBDA a : ParseLookups(lookups, n + 1, a))

\* parseKern, the test made after the scan: nothing but an empty slot 0
NoKerningInformation(acc) ==
    Len(acc.classes) + 1 = 1 /\ Cardinality(DOMAIN acc.simples) = 0

parseKern(t) ==
    Bind(ParseLookups(t, 1, [simples |-> EmptyMap, classes |-> <<>>]),
         LAMBDA acc : IF NoKerningInformation(acc)
                      THEN Fail(errMissingKerningInformation)
                      ELSE Ok(acc))

(***************************************************************************)
(* Input buffers: the binary layouts the parsers read, with every field    *)
(* drawn from a small set, cut at every length.                            *)
(***************************************************************************)
MaxPairSetCount == 2
MaxPairValueCount == 2
MaxCoverageCount == 2
MaxClassCount == 2
MaxClassID == 2

\* a uint16 as two big-endian bytes
W(x) == <<x \div 256, x % 256>>

RECURSIVE Words(_)
\* a sequence of uint16 fields as bytes
Words(ws) == IF ws = <<>> THEN <<>> ELSE W(Head(ws)) \o Words(Tail(ws))

\* the first n bytes of b
Truncate(b, n) == SubSeq(b, 1, n)

\* Coverage table (5 fields): format, count, then glyph ids (format 1) or one
\* range record start, end, startCoverageIndex (format 2)
CoverageWords(format, count, first, second) == <<format, count, first, second, 0>>

\* PairPos format 1: header (10 bytes), two PairSet offsets, Coverage at 14,
\* PairSet A at 24 and PairSet B at 30, each with room for one record
PairPos1Words(vf1, nPairs, o0, o1, cov, countA, countB) ==
    <<1, 14, vf1, 0, nPairs, o0, o1>> \o cov
        \o <<countA, 9, 65506>> \o <<countB, 10, 65516>>

PairPos1Buffers ==
    { Words(PairPos1Words(vf1, nPairs, o0, o1, CoverageWords(cf, cn, 5, cb), cA, cB)) :
        vf1 \in {4, 5}, nPairs \in 0..MaxPairSetCount, o0 \in {24, 30}, o1 \in {24, 30},
        cf \in {1, 2}, cn \in 1..MaxCoverageCount, cb \in {6},
        cA \in 0..MaxPairValueCount, cB \in 0..(MaxPairValueCount - 1) }

\* PairPos format 2: header (16 bytes), a 2 x 2 matrix at 16, Coverage at 24,
\* ClassDef 1 at 34 (format 1: startGlyph 5, two class ids) and ClassDef 2 at
\* 44 (format 2: one range 9..10)
PairPos2Words(vf1, num1, num2, cov, f1, id1, f2, id2) ==
    <<2, 24, vf1, 0, 34, 44, num1, num2>> \o <<65526, 65516, 65506, 65496>> \o cov
        \o <<f1, 5, 2, 0, id1>> \o <<f2, 1, 9, 10, id2>>

PairPos2Buffers ==
    { Words(PairPos2Words(vf1, num1, num2, CoverageWords(cf, cn, 5, 6), f1, id1, f2, id2)) :
        vf1 \in {4, 5}, num1 \in 1..MaxClassCount, num2 \in 1..MaxClassCount,
        cf \in {1, 2}, cn \in {MaxCoverageCount},
        f1 \in {1, 3}, id1 \in 0..MaxClassID, f2 \in {2}, id2 \in 0..MaxClassID }

\* A lookup holding the one subtable buf
OneSubtable(type, buf) ==
    <<[Type |-> type, data |-> buf, subtableOffsets |-> <<0>>]>>

\* Layouts with several subtables or lookups, and with fields at their extremes
SpecialLayouts ==
    LET f1 == Words(PairPos1Words(4, 1, 24, 24, CoverageWords(1, 1, 5, 6), 1, 0))
        u1 == Words(PairPos1Words(5, 1, 24, 24, CoverageWords(1, 1, 5, 6), 1, 0))
        f2 == Words(PairPos2Words(4, 2, 1, CoverageWords(1, 2, 5, 6), 1, 1, 2, 0))
        u2 == Words(PairPos2Words(5, 2, 1, CoverageWords(1, 2, 5, 6), 1, 1, 2, 0))
        z2 == Words(PairPos2Words(4, 0, 0, CoverageWords(1, 2, 5, 6), 1, 1, 2, 0))
        c3 == Words(PairPos1Words(4, 1, 24, 24, CoverageWords(3, 1, 5, 6), 1, 0))
        hc == Words(PairPos1Words(4, 1, 24, 24, CoverageWords(2, 1, 65534, 65535), 1, 0))
        hd == Words(PairPos2Words(4, 1, 1, CoverageWords(1, 2, 5, 6), 1, 0, 2, 0)
                    \o <<2, 1, 65534, 65535, 0>>)
        two(a, b) == <<[Type |-> 2, data |-> a \o b,
                        subtableOffsets |-> <<0, Len(a)>>]>>
    IN  { <<>>, OneSubtable(1, f1), OneSubtable(2, c3), OneSubtable(2, hc),
          OneSubtable(2, z2),
          OneSubtable(2, [hd EXCEPT ![12] = 54]),
          <<[Type |-> 2, data |-> f1, subtableOffsets |-> <<>>]>>,
          <<[Type |-> 2, data |-> f1, subtableOffsets |-> <<33>>]>>,
          two(u1, u1), two(u2, u2), two(u1, u2), two(f1, f2), two(u1, f1),
          two(u2, f2), OneSubtable(2, f1) \o OneSubtable(2, f2),
          OneSubtable(2, u1) \o OneSubtable(2, u2),
          OneSubtable(1, f1) \o OneSubtable(2, u2) }

Layouts ==
    UNION { { OneSubtable(2, Truncate(b, n)) : n \in 0..Len(b) } :
                b \in PairPos1Buffers \cup PairPos2Buffers }
    \cup SpecialLayouts

\* no query was made yet
NoQuery == [err |-> NotRun, val |-> [slot |-> 0, left |-> 0, right |-> 0, value |-> 0],
            found |-> FALSE]

\* glyphs asked of classKerns.KernPair
QueryGlyphs == {4, 5, 6, 9, 10}

(***************************************************************************)
(* The kerning parser as a state machine: a layout is chosen, parseKern    *)
(* runs on it, and the class-based sources it returned are queried.        *)
(***************************************************************************)
InitParse ==
    /\ layout \in Layouts /\ kres = NoResult /\ qres = NoQuery
    /\ tables = EmptyMap /\ ret = NoResult
    /\ crs = <<>> /\ k = 0 /\ gi = 0 /\ iters = 0 /\ pc = "idle"

DoParseKern ==
    /\ kres.err = NotRun
    /\ kres' = parseKern(layout)
    /\ UNCHANGED <<layout, qres, dirVars, loopVars>>

DoKernPair ==
    /\ kres.err = NoErr
    /\ \E slot \in 1..Len(kres.val.classes), left \in QueryGlyphs, right \in QueryGlyphs :
          qres' = [KernPair(kres.val.classes[slot], left, right) EXCEPT
                       !.val = [slot |-> slot, left |-> left, right |-> right,
                                value |-> @]]
    /\ UNCHANGED <<layout, kres, dirVars, loopVars>>

(***************************************************************************)
(* The table directory (Font).  A Table value is [kind, gen, lookups]:     *)
(* its Go type, which decode of its descriptor made it (0: handed in by    *)
(* the caller), and, for a TableLayout, its Lookups.  A tableSection is    *)
(* [table, parsed, direct]: the cache slot (NilTable when empty) and, as   *)
(* history, the successful decodes of this descriptor made by Font.Table   *)
(* and made by the accessors that read the table buffer themselves.        *)
(***************************************************************************)
MaxTables == 2
MaxDecodes == 2

Tags == {"head", "name", "hhea", "OS/2", "GPOS", "GSUB", "cmap", "post",
         "hmtx", "maxp", "kern"}

\* the four bytes of a tag
TagBytes(tag) ==
    CASE tag = "head" -> <<104, 101, 97, 100>>
      [] tag = "name" -> <<110, 97, 109, 101>>
      [] tag = "hhea" -> <<104, 104, 101, 97>>
      [] tag = "OS/2" -> <<79, 83, 47, 50>>
      [] tag = "GPOS" -> <<71, 80, 79, 83>>
      [] tag = "GSUB" -> <<71, 83, 85, 66>>
      [] tag = "cmap" -> <<99, 109, 97, 112>>
      [] tag = "post" -> <<112, 111, 115, 116>>
      [] tag = "hmtx" -> <<104, 109, 116, 120>>
      [] tag = "maxp" -> <<109, 97, 120, 112>>
      [] tag = "kern" -> <<107, 101, 114, 110>>

\* Tag.Number: the tag read as a big-endian uint32
Number(tag) ==
    ((TagBytes(tag)[1] * 256 + TagBytes(tag)[2]) * 256 + TagBytes(tag)[3]) * 256
        + TagBytes(tag)[4]

NilTable == [kind |-> "nil", gen |-> 0, lookups |-> <<>>]

\* the Go type Font.parseTable makes for a tag
KindOf(tag) ==
    CASE tag = "head" -> "TableHead"
      [] tag = "name" -> "TableName"
      [] tag = "hhea" -> "TableHhea"
      [] tag = "OS/2" -> "TableOS2"
      [] tag \in {"GPOS", "GSUB"} -> "TableLayout"
      [] OTHER -> "unparsedTable"

\* the GPOS tables a font file may hold
GposLayouts ==
    LET f1 == Words(PairPos1Words(4, 1, 24, 24, CoverageWords(1, 1, 5, 6), 1, 0))
        c3 == Words(PairPos2Words(4, 2, 1, CoverageWords(1, 2, 5, 6), 3, 1, 2, 0))
    IN  { OneSubtable(2, f1), <<>>, OneSubtable(2, Truncate(f1, 20)),
          OneSubtable(2, c3) }

\* what Font.parseTable may return for the section of a tag: an error, or
\* the table of the tag's type
ParseTableOutcomes(tag) ==
    {Fail(errDecode)}
    \cup { Ok([kind |-> KindOf(tag), gen |-> 1, lookups |-> l]) :
             l \in IF tag = "GPOS" THEN GposLayouts ELSE {<<>>} }

\* what findTableBuffer followed by a table's own parser may return
DirectOutcomes == {NoErr, errDecode}

\* the outcomes of parseTable a call of Table can meet: parseTable runs only
\* for a section that is there and holds no table yet
ParseOutcomesFor(tbls, tag) ==
    IF tag \in DOMAIN tbls /\ tbls[tag].table.kind = "nil"
    THEN ParseTableOutcomes(tag) ELSE {Fail(errDecode)}

\* the outcomes of findTableBuffer and a table's own parser a call can meet:
\* they run only for a section that is there
DirectOutcomesFor(tbls, tag) ==
    IF tag \in DOMAIN tbls THEN DirectOutcomes ELSE {NoErr}

\* the tables a caller hands to AddTable
UserTables ==
    { [kind |-> "TableHead", gen |-> 0, lookups |-> <<>>],
      [kind |-> "TableLayout", gen |-> 0,
       lookups |-> OneSubtable(2, Words(PairPos1Words(4, 1, 24, 24,
                                   CoverageWords(1, 1, 5, 6), 1, 0)))] }

\* a section of a parsed font file: nothing decoded yet
FileSection == [table |-> NilTable, parsed |-> 0, direct |-> 0]

\* Font.HasTable
HasTable(tbls, tag) == tag \in DOMAIN tbls

\* Font.AddTable: font.tables[tag] = &tableSection{tag: tag, table: table}
AddTable(tbls, tag, table) ==
    [t \in DOMAIN tbls \cup {tag} |->
        IF t = tag THEN [table |-> table, parsed |-> 0, direct |-> 0] ELSE tbls[t]]

\* Font.RemoveTable: delete(font.tables, tag)
RemoveTable(tbls, tag) == [t \in DOMAIN tbls \ {tag} |-> tbls[t]]

\* New: an empty Font with an empty 'head' table
New == AddTable(EmptyMap, "head", [kind |-> "TableHead", gen |-> 0, lookups |-> <<>>])

\* TagLess with the comparison turned round
TagLessReversed(a, b) == Number(a) > Number(b)

\* sort.Slice's less of Font.Tags
TagLess(a, b) == Number(a) < Number(b)

RECURSIVE InsertSorted(_, _)
\* one element put in its place in a sorted slice
InsertSorted(sorted, tag) ==
    IF sorted = <<>> THEN <<tag>>
    ELSE IF TagLess(tag, Head(sorted)) THEN <<tag>> \o sorted
    ELSE <<Head(sorted)>> \o InsertSorted(Tail(sorted), tag)

RECURSIVE SortSlice(_)
\* sort.Slice(tags, less)
SortSlice(tags) ==
    IF tags = <<>> THEN <<>> ELSE InsertSorted(SortSlice(Tail(tags)), Head(tags))

\* the orders in which ranging over the map may yield its keys
KeyOrders(tbls) ==
    { order \in [1..Cardinality(DOMAIN tbls) -> DOMAIN tbls] :
        \A i, j \in DOMAIN order : i # j => order[i] # order[j] }

\* Font.Tags, for one order of the map iteration
TagsOf(order) == SortSlice(order)

\* the result of a call on the directory
Result(tbls, err, val, ran) == [tables |-> tbls, err |-> err, val |-> val, ran |-> ran]

\* Table without the assignment s.table = t: the decode is never cached
TableUncached(tbls, tag, outcome) ==
    IF ~HasTable(tbls, tag) THEN Result(tbls, ErrMissingTable, NilTable, FALSE)
    ELSE IF outcome.err # NoErr THEN Result(tbls, outcome.err, NilTable, TRUE)
    ELSE Result([tbls EXCEPT ![tag].parsed = @ + 1], NoErr,
                [outcome.val EXCEPT !.gen = tbls[tag].parsed + 1], TRUE)

\* Table with s.table assigned before the error of parseTable is looked at
TableCachingFailure(tbls, tag, outcome) ==
    IF ~HasTable(tbls, tag) THEN Result(tbls, ErrMissingTable, NilTable, FALSE)
    ELSE IF tbls[tag].table.kind = NilTable.kind THEN
        IF outcome.err # NoErr
        THEN Result([tbls EXCEPT ![tag].table = [NilTable EXCEPT !.kind = "broken"]],
                    outcome.err, NilTable, TRUE)
        ELSE Result([tbls EXCEPT ![tag].table = [outcome.val EXCEPT !.gen = tbls[tag].parsed + 1],
                                 ![tag].parsed = @ + 1],
                    NoErr, [outcome.val EXCEPT !.gen = tbls[tag].parsed + 1], TRUE)
    ELSE Result(tbls, NoErr, tbls[tag].table, FALSE)

\* Font.Table, given what parseTable returns if it is called
Table(tbls, tag, outcome) ==
    IF ~HasTable(tbls, tag) THEN Result(tbls, ErrMissingTable, NilTable, FALSE)
    ELSE IF tbls[tag].table.kind = NilTable.kind THEN
        IF outcome.err # NoErr THEN Result(tbls, outcome.err, NilTable, TRUE)
        ELSE Result([tbls EXCEPT ![tag].table = [outcome.val EXCEPT !.gen = tbls[tag].parsed + 1],
                                 ![tag].parsed = @ + 1],
                    NoErr, [outcome.val EXCEPT !.gen = tbls[tag].parsed + 1], TRUE)
    ELSE Result(tbls, NoErr, tbls[tag].table, FALSE)

\* t.(*TableHead) and the like: a failed type assertion panics
TypeAssertion(r, kind) ==
    IF r.err # NoErr THEN r
    ELSE IF r.val.kind # kind THEN [r EXCEPT !.err = Panic, !.val = NilTable]
    ELSE r

\* l, ok := t.(*TableLayout); if !ok { return nil, fmt.Errorf(...) }
AssertLayout(r) ==
    IF r.err # NoErr THEN r
    ELSE IF r.val.kind # "TableLayout" THEN [r EXCEPT !.err = errNotLayout, !.val = NilTable]
    ELSE r

\* Font.HeadTable
HeadTable(tbls, outcome) == TypeAssertion(Table(tbls, "head", outcome), "TableHead")

\* Font.NameTable
NameTable(tbls, outcome) == TypeAssertion(Table(tbls, "name", outcome), "TableName")

\* Font.HheaTable
HheaTable(tbls, outcome) == TypeAssertion(Table(tbls, "hhea", outcome), "TableHhea")

\* Font.OS2Table
OS2Table(tbls, outcome) == TypeAssertion(Table(tbls, "OS/2", outcome), "TableOS2")

\* Font.TableLayout
TableLayout(tbls, tag, outcome) == AssertLayout(Table(tbls, tag, outcome))

\* Font.GposTable
GposTable(tbls, outcome) == TableLayout(tbls, "GPOS", outcome)

\* Font.GsubTable
GsubTable(tbls, outcome) == TableLayout(tbls, "GSUB", outcome)

\* the shape CmapTable, numGlyphs and kernKerning share: the section is looked
\* up, its buffer fetched and parsed, and nothing is stored in the section
DirectParse(tbls, tag, kind, outcome) ==
    IF ~HasTable(tbls, tag) THEN Result(tbls, ErrMissingTable, NilTable, FALSE)
    ELSE IF outcome # NoErr THEN Result(tbls, outcome, NilTable, TRUE)
    ELSE Result([tbls EXCEPT ![tag].direct = @ + 1], NoErr,
                [kind |-> kind, gen |-> tbls[tag].direct + 1, lookups |-> <<>>], TRUE)

\* Font.CmapTable
CmapTable(tbls, outcome) == DirectParse(tbls, "cmap", "Cmap", outcome)

\* Font.numGlyphs
numGlyphs(tbls, outcome) == DirectParse(tbls, "maxp", "numGlyphs", outcome)

\* Font.PostTable once the buffer of 'post' is fetched: numGlyphs, then parseTablePost
PostWithGlyphs(n, outPost) ==
    IF n.err # NoErr THEN n
    ELSE DirectParse(n.tables, "post", "PostTable", outPost)

\* Font.PostTable
PostTable(tbls, outBuf, outMaxp, outPost) ==
    IF ~HasTable(tbls, "post") THEN Result(tbls, ErrMissingTable, NilTable, FALSE)
    ELSE IF outBuf # NoErr THEN Result(tbls, outBuf, NilTable, FALSE)
    ELSE PostWithGlyphs(numGlyphs(tbls, outMaxp), outPost)

\* Font.HtmxTable once hhea is known: the 'hmtx' section, its buffer, parseHtmxTable
HtmxWithHhea(h, outHmtx) ==
    IF h.err # NoErr THEN h
    ELSE DirectParse(h.tables, "hmtx", "widths", outHmtx)

\* Font.HtmxTable once the glyph count is known: HheaTable
HtmxWithGlyphs(n, outHhea, outHmtx) ==
    IF n.err # NoErr THEN n
    ELSE HtmxWithHhea(HheaTable(n.tables, outHhea), outHmtx)

\* Font.HtmxTable
HtmxTable(tbls, outMaxp, outHhea, outHmtx) ==
    HtmxWithGlyphs(numGlyphs(tbls, outMaxp), outHhea, outHmtx)

\* a Kerns value: where it came from and what it holds
KernsOf(src, v) == [src |-> src, simples |-> v.simples, classes |-> v.classes]

NoKerns == KernsOf("none", [simples |-> EmptyMap, classes |-> <<>>])

\* one attempt of KernTable: its source, its error, its Kerns and the tables after it
Attempt(src, r, kerns) == [src |-> src, err |-> r.err, kerns |-> kerns, tables |-> r.tables]

\* gpos.parseKern() on the table GposTable returned
ParseKernOf(gpos, kerns) ==
    IF gpos.err # NoErr THEN Attempt("gpos", gpos, NoKerns)
    ELSE IF kerns.err # NoErr THEN Attempt("gpos", [gpos EXCEPT !.err = kerns.err], NoKerns)
    ELSE Attempt("gpos", gpos, KernsOf("gpos", kerns.val))

\* gpos.parseKern(), for a gpos that GposTable returned without error
ParseKernIfTable(gpos) == IF gpos.err # NoErr THEN NoResult ELSE parseKern(gpos.val.lookups)

\* Font.gposKerning
gposKerning(tbls, outGpos) ==
    ParseKernOf(GposTable(tbls, outGpos), ParseKernIfTable(GposTable(tbls, outGpos)))

\* Font.kernKerning, r being the lookup, fetch and parse of the 'kern' section
KernAttempt(r) ==
    Attempt("kern", r,
            IF r.err # NoErr THEN NoKerns
            ELSE KernsOf("kern", [simples |-> EmptyMap, classes |-> <<>>]))

\* Font.kernKerning
kernKerning(tbls, outKern) == KernAttempt(DirectParse(tbls, "kern", "Kerns", outKern))

\* an error return, as opposed to a panic or a loop that never returns
Returned(a) == a.err \notin {Panic, Hang}

\* Fallback taken only when the first source is missing or structurally empty
FallbackWhenUnavailable(first, second) ==
    IF first.err \in {ErrMissingTable, errMissingKerningInformation}
    THEN <<first, second>> ELSE <<first>>

\* KernTable: if err != nil { kerns, err = <the other source> }
Fallback(first, second) ==
    IF first.err # NoErr /\ Returned(first) THEN <<first, second>> ELSE <<first>>

\* KernTable with the two branches of if kernFirst exchanged
KernTableSwapped(tbls, kernFirst, outGpos, outKern) ==
    IF ~kernFirst
    THEN Fallback(kernKerning(tbls, outKern),
                  gposKerning(kernKerning(tbls, outKern).tables, outGpos))
    ELSE Fallback(gposKerning(tbls, outGpos),
                  kernKerning(gposKerning(tbls, outGpos).tables, outKern))

\* Font.KernTable: the attempts it makes, in order
KernTable(tbls, kernFirst, outGpos, outKern) ==
    IF kernFirst
    THEN Fallback(kernKerning(tbls, outKern),
                  gposKerning(kernKerning(tbls, outKern).tables, outGpos))
    ELSE Fallback(gposKerning(tbls, outGpos),
                  kernKerning(gposKerning(tbls, outGpos).tables, outKern))

(***************************************************************************)
(* The calls on a directory.  ret is the last call and what it returned;   *)
(* a call that panicked ends the program.                                  *)
(***************************************************************************)
Ret(op, tag, r) ==
    [op |-> op, tag |-> tag, err |-> r.err, val |-> r.val, ran |-> r.ran,
     found |-> FALSE, list |-> <<>>, tried |-> <<>>]

NoCall == Ret("none", "", Result(EmptyMap, NotRun, NilTable, FALSE))

Running == ret.err \notin {Panic, Hang}

\* no history counter beyond its cap
Capped(tbls) == \A t \in DOMAIN tbls : tbls[t].direct <= MaxDecodes

\* the directories a program starts from: New(), or a parsed font file
InitialFonts ==
    {New} \cup { [t \in S |-> FileSection] :
                    S \in {T \in SUBSET Tags : Cardinality(T) <= MaxTables} }

Init ==
    /\ tables \in InitialFonts
    /\ ret = NoCall
    /\ layout = <<>> /\ kres = NoResult /\ qres = NoQuery
    /\ crs = <<>> /\ k = 0 /\ gi = 0 /\ iters = 0 /\ pc = "idle"

\* a call returning r
Return(op, tag, r) ==
    /\ Capped(r.tables)
    /\ tables' = r.tables
    /\ ret' = Ret(op, tag, r)

DoTags ==
    /\ Running
    /\ \E order \in KeyOrders(tables) :
          ret' = [Ret("Tags", "", Result(tables, NoErr, NilTable, FALSE))
                     EXCEPT !.list = TagsOf(order)]
    /\ UNCHANGED <<tables, parseVars, loopVars>>

DoHasTable(tag) ==
    /\ Running
    /\ ret' = [Ret("HasTable", tag, Result(tables, NoErr, NilTable, FALSE))
                  EXCEPT !.found = HasTable(tables, tag)]
    /\ UNCHANGED <<tables, parseVars, loopVars>>

DoAddTable(tag, table) ==
    /\ Running
    /\ HasTable(tables, tag) \/ Cardinality(DOMAIN tables) < MaxTables
    /\ Return("AddTable", tag, Result(AddTable(tables, tag, table), NoErr, table, FALSE))
    /\ UNCHANGED <<parseVars, loopVars>>

DoRemoveTable(tag) ==
    /\ Running
    /\ Return("RemoveTable", tag, Result(RemoveTable(tables, tag), NoErr, NilTable, FALSE))
    /\ UNCHANGED <<parseVars, loopVars>>

DoTable(tag) ==
    /\ Running
    /\ \E outcome \in ParseOutcomesFor(tables, tag) :
          Return("Table", tag, Table(tables, tag, outcome))
    /\ UNCHANGED <<parseVars, loopVars>>

DoHeadTable ==
    /\ Running
    /\ \E outcome \in ParseOutcomesFor(tables, "head") :
          Return("HeadTable", "head", HeadTable(tables, outcome))
    /\ UNCHANGED <<parseVars, loopVars>>

DoNameTable ==
    /\ Running
    /\ \E outcome \in ParseOutcomesFor(tables, "name") :
          Return("NameTable", "name", NameTable(tables, outcome))
    /\ UNCHANGED <<parseVars, loopVars>>

DoHheaTable ==
    /\ Running
    /\ \E outcome \in ParseOutcomesFor(tables, "hhea") :
          Return("HheaTable", "hhea", HheaTable(tables, outcome))
    /\ UNCHANGED <<parseVars, loopVars>>

DoOS2Table ==
    /\ Running
    /\ \E outcome \in ParseOutcomesFor(tables, "OS/2") :
          Return("OS2Table", "OS/2", OS2Table(tables, outcome))
    /\ UNCHANGED <<parseVars, loopVars>>

DoGposTable ==
    /\ Running
    /\ \E outcome \in ParseOutcomesFor(tables, "GPOS") :
          Return("TableLayout", "GPOS", GposTable(tables, outcome))
    /\ UNCHANGED <<parseVars, loopVars>>

DoGsubTable ==
    /\ Running
    /\ \E outcome \in ParseOutcomesFor(tables, "GSUB") :
          Return("TableLayout", "GSUB", GsubTable(tables, outcome))
    /\ UNCHANGED <<parseVars, loopVars>>

DoCmapTable ==
    /\ Running
    /\ \E outcome \in DirectOutcomesFor(tables, "cmap") :
          Return("CmapTable", "cmap", CmapTable(tables, outcome))
    /\ UNCHANGED <<parseVars, loopVars>>

DoPostTable ==
    /\ Running
    /\ \E outBuf \in DirectOutcomesFor(tables, "post"), outMaxp \in DirectOutcomesFor(tables, "maxp"),
          outPost \in DirectOutcomesFor(tables, "post") :
          Return("PostTable", "post", PostTable(tables, outBuf, outMaxp, outPost))
    /\ UNCHANGED <<parseVars, loopVars>>

DoHtmxTable ==
    /\ Running
    /\ \E outMaxp \in DirectOutcomesFor(tables, "maxp"), outHhea \in ParseOutcomesFor(tables, "hhea"),
          outHmtx \in DirectOutcomesFor(tables, "hmtx") :
          Return("HtmxTable", "hmtx", HtmxTable(tables, outMaxp, outHhea, outHmtx))
    /\ UNCHANGED <<parseVars, loopVars>>

\* the last element of a non-empty sequence
Last(seq) == seq[Len(seq)]

\* what KernTable returns after its attempts
KernReturn(kernFirst, attempts) ==
    /\ Capped(Last(attempts).tables)
    /\ tables' = Last(attempts).tables
    /\ ret' = [Ret("KernTable", IF kernFirst THEN "kernFirst" ELSE "gposFirst",
                   Result(tables, Last(attempts).err, NilTable, FALSE))
                  EXCEPT !.tried = [n \in 1..Len(attempts) |->
                                       [src |-> attempts[n].src, err |-> attempts[n].err,
                                        kerns |-> attempts[n].kerns]]]

DoKernTable(kernFirst) ==
    /\ Running
    /\ \E outGpos \in ParseOutcomesFor(tables, "GPOS"), outKern \in DirectOutcomesFor(tables, "kern") :
          KernReturn(kernFirst, KernTable(tables, kernFirst, outGpos, outKern))
    /\ UNCHANGED <<parseVars, loopVars>>

Next ==
    \/ DoTags
    \/ \E tag \in Tags : DoHasTable(tag)
    \/ \E tag \in Tags, table \in UserTables : DoAddTable(tag, table)
    \/ \E tag \in Tags : DoRemoveTable(tag)
    \/ \E tag \in Tags : DoTable(tag)
    \/ DoHeadTable \/ DoNameTable \/ DoHheaTable \/ DoOS2Table
    \/ DoGposTable \/ DoGsubTable
    \/ DoCmapTable \/ DoPostTable \/ DoHtmxTable
    \/ \E kernFirst \in BOOLEAN : DoKernTable(kernFirst)

Spec == Init /\ [][Next]_vars

(***************************************************************************)
(* coverageRanges.list step by step: the outer loop over the range records *)
(* and the inner loop for i := cr.start; i <= cr.end; i++ over a uint16 i. *)
(***************************************************************************)
MaxRanges == 2
MaxIters == 6

RangeBounds == {0, 1, 2, 65534, 65535}

RangeRecords == [start : RangeBounds, end : RangeBounds]

RangeInputs == UNION { [1..n -> RangeRecords] : n \in 0..MaxRanges }

\* the glyphs a range record declares
RangeSize(cr) == IF cr.start > cr.end THEN 0 ELSE cr.end - cr.start + 1

InitLoop ==
    /\ crs \in RangeInputs /\ k = 1 /\ gi = 0 /\ iters = 0 /\ pc = "range"
    /\ tables = EmptyMap /\ ret = NoResult
    /\ layout = <<>> /\ kres = NoResult /\ qres = NoQuery

\* for _, cr := range crs: the next record, i := cr.start
StartRange ==
    /\ pc = "range" /\ k <= Len(crs)
    /\ gi' = crs[k].start /\ iters' = 0 /\ pc' = "test"
    /\ UNCHANGED <<crs, k, dirVars, parseVars>>

\* i <= cr.end holds: out = append(out, i); i++
LoopBody ==
    /\ pc = "test" /\ gi <= crs[k].end
    /\ iters < MaxIters
    /\ iters' = iters + 1
    /\ gi' = (gi + 1) % GlyphModulus
    /\ UNCHANGED <<crs, k, pc, dirVars, parseVars>>

\* i <= cr.end fails: the inner loop ends
LoopExit ==
    /\ pc = "test" /\ ~(gi <= crs[k].end)
    /\ k' = k + 1 /\ pc' = "range"
    /\ UNCHANGED <<crs, gi, iters, dirVars, parseVars>>

\* no record is left: return out
Finish ==
    /\ pc = "range" /\ k > Len(crs)
    /\ pc' = "done"
    /\ UNCHANGED <<crs, k, gi, iters, dirVars, parseVars>>

NextLoop == StartRange \/ LoopBody \/ LoopExit \/ Finish

NextParse == DoParseKern \/ DoKernPair

SpecParse == InitParse /\ [][NextParse]_vars

SpecLoop == InitLoop /\ [][NextLoop]_vars

(***************************************************************************)
(* Properties of the kerning resolver.                                     *)
(***************************************************************************)
KernCall == ret.op = "KernTable"

FirstSource == IF ret.tag = "kernFirst" THEN "kern" ELSE "gpos"

OtherSource == IF ret.tag = "kernFirst" THEN "gpos" ELSE "kern"

\* C1 as claimed: a first attempt that fails on a malformed subtable
\* (InvalidKerningSubtable, UnsupportedClassDefFormat) is returned as it is
\* and the other source is not consulted.
C1_MalformedIsHardFailure ==
    (KernCall /\ ret.tried[1].err \in {errInvalidGPOSKern, errUnsupportedClassDefFormat})
        => Len(ret.tried) = 1 /\ ret.err = ret.tried[1].err

\* C1 as amended: for both values of kernFirst the fallback source is
\* attempted exactly when the first attempt returns an error, whatever the
\* error (a malformed subtable included), and KernTable then returns what
\* the fallback returned; a first attempt without error is returned as it is.
C1_FallbackOnAnyError ==
    KernCall =>
        /\ ret.tried[1].src = FirstSource
        /\ Len(ret.tried) = 2 <=> (ret.tried[1].err # NoErr /\ Returned(ret.tried[1]))
        /\ Len(ret.tried) = 2 => ret.tried[2].src = OtherSource
        /\ ret.err = Last(ret.tried).err

\* a GPOS attempt failed on a malformed subtable and the kern table was consulted
C1_Witness ==
    /\ KernCall /\ Len(ret.tried) = 2
    /\ ret.tried[1].src = "gpos" /\ ret.tried[1].err = errInvalidGPOSKern
    /\ ret.tried[2].src = "kern" /\ ret.err = NoErr

\* C2: KernTable(false) returns the Kerns parsed from the GPOS table whenever
\* the GPOS attempt succeeds, a kern table being present or not;
\* KernTable(true) returns the kern table's Kerns whenever that parses, and
\* GPOS is consulted only after the kern attempt has failed.
C2_Priority ==
    KernCall =>
        /\ (ret.tag = "gposFirst" /\ ret.tried[1].src = "gpos" /\ ret.tried[1].err = NoErr)
              => /\ Len(ret.tried) = 1 /\ ret.err = NoErr
                 /\ ret.tried[1].kerns =
                        KernsOf("gpos", parseKern(tables["GPOS"].table.lookups).val)
        /\ ret.tag = "gposFirst" => ret.tried[1].src = "gpos"
        /\ (ret.tag = "kernFirst" /\ ret.tried[1].src = "kern" /\ ret.tried[1].err = NoErr)
              => /\ Len(ret.tried) = 1 /\ ret.err = NoErr
                 /\ ret.tried[1].kerns.src = "kern"
        /\ ret.tag = "kernFirst" => ret.tried[1].src = "kern"
        /\ (ret.tag = "kernFirst" /\ \E n \in 1..Len(ret.tried) : ret.tried[n].src = "gpos")
              => ret.tried[1].src = "kern" /\ ret.tried[1].err # NoErr

\* GPOS first succeeded while a kern table was in the directory
C2_Witness ==
    /\ KernCall /\ ret.tag = "gposFirst" /\ ret.err = NoErr
    /\ ret.tried[1].src = "gpos" /\ ret.tried[1].kerns.simples # EmptyMap
    /\ HasTable(tables, "kern")

(***************************************************************************)
(* Properties of the table directory.                                      *)
(***************************************************************************)
\* the calls that go through Font.Table and return its table
TableCalls == {"Table", "HeadTable", "NameTable", "HheaTable", "OS2Table", "TableLayout"}

\* the calls that fetch and parse a table buffer themselves
DirectCalls == {"CmapTable", "PostTable", "HtmxTable"}

\* C3 as claimed: whatever the accessor (Table, a typed accessor, cmap, post,
\* htmx, the kerning resolver), the decode of a tag succeeds at most once
\* per descriptor, later accesses being served from the cache.
C3_DecodedAtMostOnce ==
    \A t \in DOMAIN tables : tables[t].parsed <= 1 /\ tables[t].direct <= 1

\* C3 as amended: through Table and the head, name, hhea, OS2 and layout
\* accessors the decode of a tag succeeds at most once per descriptor, and
\* every access without error returns the very object held in the cache
\* slot, the decoder having run only if the slot was empty; the cmap, post
\* and htmx accessors run their decoder on every call that succeeds.
C3_TableDecodedOnce ==
    /\ \A t \in DOMAIN tables :
          /\ tables[t].parsed <= 1
          /\ tables[t].table.gen <= 1
    /\ (ret.op \in TableCalls /\ ret.err = NoErr)
          => /\ ret.val = tables[ret.tag].table
             /\ ret.ran => ret.val.gen = 1 /\ tables[ret.tag].parsed = 1
    /\ (ret.op \in DirectCalls /\ ret.err = NoErr) => ret.ran

\* the head table was decoded once and a later HeadTable got it from the cache
C3_Witness ==
    /\ ret.op = "HeadTable" /\ ret.err = NoErr /\ ~ret.ran
    /\ tables["head"].parsed = 1 /\ ret.val.gen = 1

\* C4, what holds after a call of Table
C4_AfterTable ==
    ret.op = "Table" =>
        /\ ~HasTable(tables, ret.tag) <=> ret.err = ErrMissingTable
        /\ ret.err \notin {NoErr, ErrMissingTable}
              => /\ ret.ran /\ ret.err = errDecode
                 /\ tables[ret.tag].table = NilTable /\ tables[ret.tag].parsed = 0
        /\ ret.err = NoErr => tables[ret.tag].table = ret.val

\* C4, what a call of Table does
C4_TableStep ==
    ret'.op = "Table" =>
        /\ ret'.err # NoErr => tables' = tables
        /\ (HasTable(tables, ret'.tag) /\ tables[ret'.tag].table = NilTable) => ret'.ran
        /\ (ret'.ran /\ ret'.err = NoErr)
              => /\ tables[ret'.tag].table = NilTable
                 /\ tables'[ret'.tag].table = ret'.val
                 /\ \A t \in DOMAIN tables \ {ret'.tag} : tables'[t] = tables[t]

\* C4: Table fails with ErrMissingTable exactly when the tag is absent; when
\* the decode of a present tag fails Table returns the decode error, the
\* cache slot stays empty and the directory is unchanged, and a call of
\* Table on an empty slot always runs the decoder, a success being cached.
C4_TableErrors == []C4_AfterTable /\ [][C4_TableStep]_vars

\* a decode failed and left the slot empty
C4_Witness ==
    /\ ret.op = "Table" /\ ret.err = errDecode /\ ret.ran
    /\ tables[ret.tag].table = NilTable

\* the tags HasTable holds for
Present(tbls) == {t \in Tags : HasTable(tbls, t)}

\* a slice of tags in strictly ascending order of Number
Ascending(list) == \A i, j \in 1..Len(list) : i < j => Number(list[i]) < Number(list[j])

\* C5, what the queries return
C5_Queries ==
    /\ ret.op = "HasTable" => (ret.found <=> ret.tag \in DOMAIN tables)
    /\ ret.op = "Tags"
          => /\ Ascending(ret.list)
             /\ {ret.list[i] : i \in 1..Len(ret.list)} = Present(tables)
             /\ Len(ret.list) = Cardinality(DOMAIN tables)

\* C5, how a call changes what HasTable answers
C5_MembershipStep ==
    /\ Present(tables') =
          CASE ret'.op = "AddTable" -> Present(tables) \cup {ret'.tag}
            [] ret'.op = "RemoveTable" -> Present(tables) \ {ret'.tag}
            [] OTHER -> Present(tables)
    /\ (ret'.op = "RemoveTable" /\ ~HasTable(tables, ret'.tag)) => tables' = tables

\* C5: HasTable(tag) is made true by AddTable(tag), false by RemoveTable(tag)
\* and is changed by no other call, so that it tells whether the last of
\* the two applied to the tag was AddTable (or the tag was there from the
\* start and never removed); RemoveTable of an absent tag changes nothing;
\* Tags returns the tags HasTable holds for, each once, in strictly
\* ascending Number, whatever the order of the map.
C5_Membership == []C5_Queries /\ [][C5_MembershipStep]_vars

\* Tags returned two tags, both put in the directory by AddTable
C5_Witness ==
    /\ ret.op = "Tags" /\ Len(ret.list) = 2
    /\ \A i \in 1..2 : tables[ret.list[i]].table \in UserTables

\* the typed accessors whose table is checked against the tag's type
TypedCalls == {"HeadTable", "NameTable", "HheaTable", "OS2Table", "TableLayout"}

\* C6: a typed accessor that finds a table of another type under its tag
\* returns a kind-mismatch error; it does not panic.
C6_KindMismatchIsAnError ==
    (/\ ret.op \in TypedCalls
     /\ HasTable(tables, ret.tag)
     /\ tables[ret.tag].table.kind \notin {NilTable.kind, KindOf(ret.tag)})
        => ret.err = errNotLayout

(***************************************************************************)
(* Properties of the kerning parser.                                       *)
(***************************************************************************)
\* the layout is one pair adjustment subtable of a type 2 lookup
OnePairPosSubtable ==
    /\ Len(layout) = 1 /\ layout[1].Type = 2 /\ layout[1].subtableOffsets = <<0>>

\* C7: whatever the truncation of a pair adjustment subtable, parseKern makes
\* no read outside the buffer (it returns, with errInvalidGPOSKern when a
\* count or offset points past the end).
C7_NoReadOutsideBuffer ==
    (OnePairPosSubtable /\ kres.err # NotRun) => kres.err # Panic

\* a Kerns value holding no pair at all
NoPairData(v) ==
    /\ DOMAIN v.simples = {}
    /\ \A n \in 1..Len(v.classes) : Len(v.classes[n].kerns) = 0

\* C8: a scan that yields no usable pair data fails with
\* errMissingKerningInformation; it returns no Kerns.
C8_EmptyScanFails ==
    kres.err = NoErr => ~NoPairData(kres.val)

\* C9: the loop over a range record makes no more iterations than the record
\* has glyphs.
C9_LoopBoundedByRange ==
    pc = "test" => iters <= RangeSize(crs[k])

\* class1Count and class2Count of the format 2 subtable the layout holds
Class1Count == U16(layout[1].data, 12)

Class2Count == U16(layout[1].data, 14)

\* C10: KernPair of a class-based source returns no match for a left glyph
\* outside the coverage, and otherwise the matrix entry of row class1[left]
\* and column class2[right], which lie inside the class1Count x class2Count
\* matrix.
C10_LookupInsideMatrix ==
    (OnePairPosSubtable /\ qres.err # NotRun) =>
        LET c == kres.val.classes[qres.val.slot]
            row == MapGet(c.class1, qres.val.left)
            col == MapGet(c.class2, qres.val.right)
        IN  /\ qres.err = NoErr
            /\ qres.val.left \notin c.coverage => ~qres.found
            /\ qres.val.left \in c.coverage
                  => /\ qres.found
                     /\ row < Class1Count /\ col < Class2Count
                     /\ qres.val.value = c.kerns[col + row * Class2Count + 1]

(***************************************************************************)
(* Properties of the Coverage decoder.  parseKern hands the subtable and   *)
(* its coverageOffset to fetchCoverage as soon as the four bytes of        *)
(* posFormat and coverageOffset are there.                                 *)
(***************************************************************************)
\* the layout is one subtable long enough for parseKern to call fetchCoverage
CoverageFetched ==
    OnePairPosSubtable /\ Len(layout[1].data) >= 4 /\ kres.err # NotRun

\* coverageOffset of the subtable
CoverageOffset == U16(layout[1].data, 2)

\* what fetchCoverage returns to parseKern
CoverageResult == fetchCoverage(layout[1].data, CoverageOffset)

\* the bytes from the Coverage table on
CoverageBytes == Slice(layout[1].data, CoverageOffset)

\* the Coverage table has its coverageFormat word
HasCoverageFormat == Len(layout[1].data) >= CoverageOffset + 2

\* bytes of one entry of a Coverage table of the given format
CoverageEntrySize(format) == IF format = 1 THEN 2 ELSE 6

\* the buffer ends before the count or before the entries the count declares
CoverageTooShort ==
    \/ ~HasCoverageFormat
    \/ /\ U16(CoverageBytes, 0) \in {1, 2}
       /\ \/ Len(CoverageBytes) < 4
          \/ Len(CoverageBytes) <
                4 + U16(CoverageBytes, 2) * CoverageEntrySize(U16(CoverageBytes, 0))

\* C11 as claimed: every error the Coverage decoder returns, for a buffer
\* too short as for a format other than 1 or 2, is errInvalidGPOSKern.
C11_OnlyInvalidSubtable ==
    (CoverageFetched /\ CoverageResult.err \notin {NoErr, Panic, Hang})
        => CoverageResult.err = errInvalidGPOSKern

\* C11 as amended: the Coverage decoder returns errInvalidGPOSKern exactly
\* when the buffer is too short for the format and count words or for the
\* entries the count declares, and the error "unsupported GPOS coverage
\* format" exactly when the format word is there and is neither 1 nor 2; it
\* returns no other error and makes no read outside the buffer, a format 2
\* table being the only one whose decoding may not return; parseKern
\* returns the decoder's error as it is.
C11_TwoErrorKinds ==
    CoverageFetched =>
        /\ CoverageResult.err \in
              {NoErr, errInvalidGPOSKern, errUnsupportedCoverageFormat, Hang}
        /\ CoverageResult.err = errInvalidGPOSKern <=> CoverageTooShort
        /\ CoverageResult.err = errUnsupportedCoverageFormat
              <=> (HasCoverageFormat /\ U16(CoverageBytes, 0) \notin {1, 2})
        /\ CoverageResult.err = Hang => U16(CoverageBytes, 0) = 2
        /\ CoverageResult.err # NoErr => kres.err = CoverageResult.err

\* parseKern met a Coverage table of format 3 and returned the decoder's error
C11_Witness ==
    /\ CoverageFetched /\ HasCoverageFormat /\ U16(CoverageBytes, 0) = 3
    /\ kres.err = errUnsupportedCoverageFormat

==========================================================================
